---- MODULE Spec2Model ----
(***************************************************************************)
(* A model of aiohttp_storage/storage.py: the name checks                  *)
(* (get_valid_filename, validate_file_name, safe_join), the name resolver  *)
(* (BaseStorage.get_available_filename) and the file system backend        *)
(* (FileSystemStorage.save / _save / exists / delete / url).               *)
(*                                                                         *)
(* A Python str is a sequence of one-character strings: "a.t" is           *)
(* <<"a", ".", "t">>.  A pathlib.PurePosixPath is a record                 *)
(* [anchor, parts]: anchor is <<>>, <<"/">> or <<"/", "/">> and parts is   *)
(* the sequence of its components without the anchor.                      *)
(***************************************************************************)
EXTENDS Integers, Sequences, FiniteSets, TLC

(***************************************************************************)
(* Bounds of the model.                                                    *)
(***************************************************************************)
\* longest filename handed to safe_join in SpecJoin
MaxJoinLen == 5
\* longest desired name handed to get_available_filename in SpecResolve
MaxNameLen == 4
\* number of distinct strings the random source yields
NumRandom == 2
\* largest max_len a caller passes
MaxMaxLen == 12
\* calls of exists that get_available_filename may make for one caller
MaxExistsCalls == 3
\* concurrent callers of one FileSystemStorage
NumProcs == 2
\* the calls one caller makes one after the other, after its first
MaxCalls == 4
\* longest raw name handed to get_valid_filename
MaxRawLen == 3

(***************************************************************************)
(* Strings.                                                                *)
(***************************************************************************)
SEP == "/"
DOT == "."

\* the characters `choice` draws from: a sample of ascii_letters + digits
RANDOM_STRING_CHARS == <<"X", "y", "7">>

\* str.rfind(c): the last index of c in s, 0 when there is none (Python: -1)
RECURSIVE RFind(_, _)
RFind(s, c) ==
    IF s = <<>> THEN 0
    ELSE IF s[Len(s)] = c THEN Len(s)
    ELSE RFind(SubSeq(s, 1, Len(s) - 1), c)

\* the number of leading c in s
RECURSIVE LeadCount(_, _)
LeadCount(s, c) ==
    IF s = <<>> \/ s[1] # c THEN 0 ELSE 1 + LeadCount(Tail(s), c)

\* str.split("/"): the pieces of s between separators, empty ones included
RECURSIVE Split(_)
Split(s) ==
    IF \A i \in 1..Len(s) : s[i] # SEP THEN <<s>>
    ELSE LET i == CHOOSE k \in 1..Len(s) :
                      s[k] = SEP /\ \A j \in 1..(k - 1) : s[j] # SEP
         IN  <<SubSeq(s, 1, i - 1)>> \o Split(SubSeq(s, i + 1, Len(s)))

\* "/".join(parts)
RECURSIVE JoinSep(_)
JoinSep(parts) ==
    IF parts = <<>> THEN <<>>
    ELSE IF Len(parts) = 1 THEN parts[1]
    ELSE parts[1] \o <<SEP>> \o JoinSep(Tail(parts))

RECURSIVE DropEmptyAndDot(_)
DropEmptyAndDot(parts) ==
    IF parts = <<>> THEN <<>>
    ELSE IF parts[1] = <<>> \/ parts[1] = <<DOT>> THEN DropEmptyAndDot(Tail(parts))
    ELSE <<parts[1]>> \o DropEmptyAndDot(Tail(parts))

(***************************************************************************)
(* pathlib.                                                                *)
(***************************************************************************)
\* Path(s): exactly two leading slashes are kept as the anchor "//", any
\* other number is "/"; empty and "." components are dropped, ".." is kept
PathOf(s) ==
    LET n == LeadCount(s, SEP)
    IN  [anchor |-> IF n = 0 THEN <<>> ELSE IF n = 2 THEN <<SEP, SEP>> ELSE <<SEP>>,
         parts  |-> DropEmptyAndDot(Split(SubSeq(s, n + 1, Len(s))))]

\* str(path)
StrOf(p) ==
    IF p.anchor = <<>> /\ p.parts = <<>> THEN <<DOT>>
    ELSE p.anchor \o JoinSep(p.parts)

\* path.parts, the anchor among them
PartsOf(p) == (IF p.anchor = <<>> THEN <<>> ELSE <<p.anchor>>) \o p.parts

\* path.name
NameOf(p) == IF p.parts = <<>> THEN <<>> ELSE p.parts[Len(p.parts)]

\* path.is_absolute()
IsAbsolute(p) == p.anchor # <<>>

\* path.suffix: from the last dot of the name, unless the dot is its first
\* or its last character
SuffixOf(p) ==
    LET name == NameOf(p)
        i    == RFind(name, DOT)
    IN  IF 1 < i /\ i < Len(name) THEN SubSeq(name, i, Len(name)) ELSE <<>>

\* path.stem
StemOf(p) ==
    LET name == NameOf(p)
        i    == RFind(name, DOT)
    IN  IF 1 < i /\ i < Len(name) THEN SubSeq(name, 1, i - 1) ELSE name

\* path.with_stem(stem), for a path with a name
WithStem(p, stem) ==
    [p EXCEPT !.parts[Len(p.parts)] = stem \o SuffixOf(p)]

\* path.parent
ParentOf(p) ==
    IF p.parts = <<>> THEN p
    ELSE [p EXCEPT !.parts = SubSeq(p.parts, 1, Len(p.parts) - 1)]

\* base.joinpath(other): an anchored other replaces base
JoinPath(base, other) ==
    IF other.anchor # <<>> THEN other
    ELSE [anchor |-> base.anchor, parts |-> base.parts \o other.parts]

\* path.resolve() of an absolute path in a tree without symbolic links:
\* ".." drops the component before it and stays at the anchor, and the
\* anchor "//" becomes "/"
RECURSIVE ResolveParts(_, _)
ResolveParts(done, rest) ==
    IF rest = <<>> THEN done
    ELSE IF rest[1] = <<DOT, DOT>>
         THEN ResolveParts(IF done = <<>> THEN <<>>
                           ELSE SubSeq(done, 1, Len(done) - 1), Tail(rest))
    ELSE ResolveParts(done \o <<rest[1]>>, Tail(rest))

PathResolve(p) == [anchor |-> <<SEP>>, parts |-> ResolveParts(<<>>, p.parts)]

\* path.is_relative_to(base)
IsRelativeTo(p, base) ==
    /\ p.anchor = base.anchor
    /\ Len(base.parts) <= Len(p.parts)
    /\ SubSeq(p.parts, 1, Len(base.parts)) = base.parts

(***************************************************************************)
(* The name checks.                                                        *)
(***************************************************************************)
\* the outcome of a call: a returned value, or the exception raised
Ok(v)    == [ok |-> TRUE, val |-> v]
Fail(e)  == [ok |-> FALSE, val |-> e]

\* the exceptions of the program: SuspiciousFileOperation raised for a
\* malformed name, for a traversal, for an exhausted name space
InvalidName        == "InvalidName"
PathTraversal      == "PathTraversal"
ExhaustedNameSpace == "ExhaustedNameSpace"

BadNames == {<<>>, <<DOT>>, <<DOT, DOT>>}

\* safe_join without its test: the joined path is returned wherever it lies
safe_join_unchecked(base, path) ==
    Ok(StrOf(PathResolve(JoinPath(PathResolve(base), PathOf(path)))))

\* safe_join testing the joined path before it is resolved
safe_join_unresolved(base, path) ==
    LET base_path   == PathResolve(base)
        joined_path == JoinPath(base_path, PathOf(path))
    IN  IF ~IsRelativeTo(joined_path, base_path) THEN Fail(PathTraversal)
        ELSE Ok(StrOf(PathResolve(joined_path)))

\* safe_join(base, path) for a canonical absolute base
safe_join(base, path) ==
    LET base_path   == PathResolve(base)
        joined_path == PathResolve(JoinPath(base_path, PathOf(path)))
    IN  IF ~IsRelativeTo(joined_path, base_path) THEN Fail(PathTraversal)
        ELSE Ok(StrOf(joined_path))

\* validate_file_name testing the final component only
validate_file_name_NameOnly(filename, allow_relative_path) ==
    IF NameOf(PathOf(filename)) \in BadNames THEN Fail(InvalidName) ELSE Ok(filename)

\* validate_file_name(filename, allow_relative_path)
validate_file_name(filename, allow_relative_path) ==
    LET path == PathOf(filename)
    IN  IF NameOf(path) \in BadNames THEN Fail(InvalidName)
        ELSE IF allow_relative_path
             THEN IF IsAbsolute(path) \/ \E i \in 1..Len(path.parts) :
                                              path.parts[i] = <<DOT, DOT>>
                  THEN Fail(PathTraversal)
                  ELSE Ok(filename)
        ELSE IF PartsOf(path)[1] # NameOf(path) THEN Fail(InvalidName)
        ELSE Ok(filename)

(***************************************************************************)
(* The random source.                                                      *)
(***************************************************************************)
\* get_alternative_stem's defaults
random_length == 7
sep == "_"

RECURSIVE Pow(_, _)
Pow(b, e) == IF e = 0 THEN 1 ELSE b * Pow(b, e - 1)

\* a random source whose strings differ in length
RandomString_VaryingLength(k) ==
    [i \in 1..(random_length - (k - 1)) |-> RANDOM_STRING_CHARS[1]]

\* the k-th string of random_length characters of RANDOM_STRING_CHARS, its
\* first character varying fastest: what the list of `choice` calls yields
RandomString(k) ==
    [i \in 1..random_length |->
        RANDOM_STRING_CHARS[(((k - 1) \div Pow(Len(RANDOM_STRING_CHARS), i - 1))
                                % Len(RANDOM_STRING_CHARS)) + 1]]

RandomStrings == {RandomString(k) : k \in 1..NumRandom}

\* get_alternative_stem leaving the separator out
get_alternative_stem_nosep(stem, s) == stem \o s

\* get_alternative_stem(stem), s being the characters drawn
get_alternative_stem(stem, s) == stem \o <<sep>> \o s

(***************************************************************************)
(* BaseStorage.get_available_filename.                                     *)
(***************************************************************************)
\* the checks made before the loop: the outcome is the origin_path
GafEntry(filename) ==
    LET origin_path == PathOf(filename)
    IN  IF \E i \in 1..Len(origin_path.parts) : origin_path.parts[i] = <<DOT, DOT>>
        THEN Fail(PathTraversal)
        ELSE IF ~validate_file_name(NameOf(origin_path), FALSE).ok
        THEN Fail(InvalidName)
        ELSE Ok(origin_path)

\* the loop condition without the call of exists
GafLoops_LengthOnly(filename, max_len, answer) ==
    max_len > 0 /\ Len(filename) > max_len

\* the loop condition, given the answer of exists(filename)
GafLoops(filename, max_len, answer) ==
    answer \/ (max_len > 0 /\ Len(filename) > max_len)

\* the first candidate of an iteration
GafCandidate(origin_path, s) ==
    StrOf(WithStem(origin_path, get_alternative_stem(StemOf(origin_path), s)))

\* a truncation that leaves the name one character over max_len
GafTruncation_OneLess(candidate, max_len) == Len(candidate) - max_len - 1

\* truncation = len(filename) - max_len
GafTruncation(candidate, max_len) == Len(candidate) - max_len

\* the stem cut one character short of truncation
GafTruncatedStem_OffByOne(origin_path, truncation) ==
    SubSeq(StemOf(origin_path), 1, Len(StemOf(origin_path)) - truncation + 1)

\* origin_path.stem[:-truncation], for truncation > 0
GafTruncatedStem(origin_path, truncation) ==
    SubSeq(StemOf(origin_path), 1, Len(StemOf(origin_path)) - truncation)

\* the loop body truncating the randomized candidate instead of making a
\* new one from the truncated stem of origin_path
GafBody_TruncatesCandidate(origin_path, max_len, s1, s2) ==
    LET candidate  == GafCandidate(origin_path, s1)
        truncation == GafTruncation(candidate, max_len)
        stem       == StemOf(PathOf(candidate))
    IN  IF max_len <= 0 \/ truncation <= 0 THEN Ok(candidate)
        ELSE IF GafTruncatedStem(origin_path, truncation) = <<>>
        THEN Fail(ExhaustedNameSpace)
        ELSE Ok(StrOf(WithStem(origin_path, SubSeq(stem, 1, Len(stem) - truncation))))

\* one iteration of the loop body, s1 and s2 being the strings the random
\* source yields: the new filename, or the exception
GafBody(origin_path, max_len, s1, s2) ==
    LET candidate  == GafCandidate(origin_path, s1)
        truncation == GafTruncation(candidate, max_len)
    IN  IF max_len <= 0 \/ truncation <= 0 THEN Ok(candidate)
        ELSE IF GafTruncatedStem(origin_path, truncation) = <<>>
        THEN Fail(ExhaustedNameSpace)
        ELSE Ok(StrOf(WithStem(origin_path,
                 get_alternative_stem(GafTruncatedStem(origin_path, truncation), s2))))

(***************************************************************************)
(* The state.                                                              *)
(***************************************************************************)
VARIABLES
    location,   \* FileSystemStorage.location, a resolved path
    base_url,   \* FileSystemStorage._base_url: None, or a str
    files,      \* the file system: path string -> [kind, owner, data]
    pc,         \* per caller: where its call stands
    call,       \* per caller: the call [op, filename, max_len]
    gaf,        \* per caller: the frame of get_available_filename
    result,     \* per caller: what the call returned or raised
    log         \* per caller: what the call did, for the properties

vars == <<location, base_url, files, pc, call, gaf, result, log>>

Procs == 1..NumProcs

OSError == "OSError"
None    == "None"
\* FileSystemStorage(location): base_url is None
NoBase == [given |-> FALSE, str |-> <<>>]
\* FileSystemStorage(location, base_url)
Base(str) == [given |-> TRUE, str |-> str]
\* the call has not ended
NoResult == [ok |-> FALSE, val |-> None]
NoFrame == [origin_path |-> PathOf(<<>>), max_len |-> 0, filename |-> <<>>,
            caller |-> None]
\* asked and answers: the arguments and the outcomes of the calls of exists
\* that get_available_filename made; draws: the random strings drawn;
\* candidate: the last name the loop body made before truncating; paths: the
\* paths looked at, created or unlinked; retries: the FileExistsError caught.
\* Of the calls the caller made before this one: calls, their number;
\* returned, the names save returned; saved, those of them that no
\* delete was called with since; deleted, the names delete returned for and
\* save did not return since; kept, the paths of the names save returned
\* that no delete was called for since; removed, the paths delete returned
\* for at which no save made a file or directory since
NoLog   == [asked |-> <<>>, answers |-> <<>>, draws |-> 0,
            candidate |-> <<>>, paths |-> {}, retries |-> 0,
            calls |-> 0, returned |-> {}, saved |-> {}, deleted |-> {},
            kept |-> {}, removed |-> {}]

\* the bytes of caller p's data
DataOf(p) == <<"bytes", p>>

(***************************************************************************)
(* FileSystemStorage.                                                      *)
(***************************************************************************)
\* os.path.lexists
lexists(fs, path) == path \in DOMAIN fs

\* FileSystemStorage.exists(filename): the answer, or safe_join's exception
FsExists(loc, fs, filename) ==
    LET dst_path == safe_join(loc, filename)
    IN  IF dst_path.ok THEN Ok(lexists(fs, dst_path.val)) ELSE dst_path

\* the ancestors of a path, the path among them, from the anchor down
Ancestors(path) ==
    {StrOf([path EXCEPT !.parts = SubSeq(path.parts, 1, n)]) : n \in 0..Len(path.parts)}

\* the store right after setUp: the location, the directories above it and
\* nothing below it
RootOnly(loc) ==
    [a \in Ancestors(loc) |-> [kind |-> "dir", owner |-> 0, data |-> <<>>]]

\* os.makedirs(parent, exist_ok=True) fails when a component is no directory
MakedirsFails(fs, parent) ==
    \E a \in Ancestors(parent) : a \in DOMAIN fs /\ fs[a].kind # "dir"

\* a makedirs that leaves nothing in the store but the directories down
\* to parent
Makedirs_Alone(fs, parent, p) ==
    [a \in Ancestors(parent) |->
        IF a \in DOMAIN fs THEN fs[a]
        ELSE [kind |-> "dir", owner |-> p, data |-> <<>>]]

\* the store after os.makedirs(parent, exist_ok=True) by caller p
Makedirs(fs, parent, p) ==
    [a \in DOMAIN fs \cup Ancestors(parent) |->
        IF a \in DOMAIN fs THEN fs[a]
        ELSE [kind |-> "dir", owner |-> p, data |-> <<>>]]

\* open(dst_path, "wb"): an existing file is no obstacle
CreateCollides_Never(fs, dst_path) == FALSE

\* open(dst_path, "xb") raises FileExistsError
CreateCollides(fs, dst_path) == lexists(fs, dst_path)

\* open(dst_path, "xb") raises FileNotFoundError or NotADirectoryError
OpenFails(fs, dst_path) ==
    LET parent == StrOf(ParentOf(PathOf(dst_path)))
    IN  ~lexists(fs, parent) \/ fs[parent].kind # "dir"

\* the call ends: it returns r.val, or raises it, the rest of its state does not
Finish(p, r) ==
    /\ pc' = [pc EXCEPT ![p] = IF r.ok THEN "done" ELSE "failed"]
    /\ result' = [result EXCEPT ![p] = r]

Logged(p, path) == [log EXCEPT ![p].paths = @ \cup {path}]

(***************************************************************************)
(* get_available_filename, one evaluation of the loop condition and, when  *)
(* it holds, one run of the loop body.  ex is the outcome of               *)
(* exists(filename) and tested the paths that call looked at.              *)
(***************************************************************************)
\* the random strings one run of the loop body draws
GafDraws(origin_path, max_len, s1) ==
    IF /\ max_len > 0
       /\ GafTruncation(GafCandidate(origin_path, s1), max_len) > 0
       /\ GafTruncatedStem(origin_path,
              GafTruncation(GafCandidate(origin_path, s1), max_len)) # <<>>
    THEN 2 ELSE 1

GafStep(p, ex, tested) ==
    /\ pc[p] = "resolve"
    /\ LET f  == gaf[p]
           lg == [log[p] EXCEPT !.asked = Append(@, f.filename),
                                !.answers = Append(@, ex),
                                !.paths = @ \cup tested]
       IN  IF ~ex.ok
           THEN /\ Finish(p, ex)
                /\ log' = [log EXCEPT ![p] = lg]
                /\ UNCHANGED gaf
           ELSE IF GafLoops(f.filename, f.max_len, ex.val)
           THEN \E s1 \in RandomStrings, s2 \in RandomStrings :
                  LET body == GafBody(f.origin_path, f.max_len, s1, s2)
                  IN  /\ log' = [log EXCEPT ![p] =
                                   [lg EXCEPT !.draws = @ + GafDraws(f.origin_path, f.max_len, s1),
                                              !.candidate = GafCandidate(f.origin_path, s1)]]
                      /\ IF body.ok
                         THEN /\ gaf' = [gaf EXCEPT ![p].filename = body.val]
                              /\ UNCHANGED <<pc, result>>
                         ELSE /\ Finish(p, body)
                              /\ UNCHANGED gaf
           ELSE /\ log' = [log EXCEPT ![p] = lg]
                /\ UNCHANGED gaf
                /\ CASE f.caller = "save" ->
                          /\ pc' = [pc EXCEPT ![p] = "makedirs"]
                          /\ UNCHANGED result
                     [] f.caller = "_save" ->
                          \* dst_path = Path(safe_join(self.location, filename))
                          IF safe_join(location, f.filename).ok
                          THEN /\ pc' = [pc EXCEPT ![p] = "open"]
                               /\ UNCHANGED result
                          ELSE Finish(p, safe_join(location, f.filename))
                     [] OTHER -> Finish(p, Ok(f.filename))
    /\ UNCHANGED <<location, base_url, files, call>>

\* the exists of FileSystemStorage answers; a call makes at most
\* MaxExistsCalls calls of it
FsResolve(p) ==
    LET dst_path == safe_join(location, gaf[p].filename)
    IN  /\ Len(log[p].asked) < MaxExistsCalls
        /\ GafStep(p, FsExists(location, files, gaf[p].filename),
                   IF dst_path.ok THEN {dst_path.val} ELSE {})

\* the exists of a BaseStorage whose exists is a mock answers: any answer,
\* FALSE at the last of MaxExistsCalls calls
MockResolve(p) ==
    \E answer \in BOOLEAN :
        /\ Len(log[p].asked) < MaxExistsCalls
        /\ answer => Len(log[p].asked) + 1 < MaxExistsCalls
        /\ GafStep(p, Ok(answer), {})

\* get_available_filename(filename, max_len) is called
ResolveCall(p) ==
    /\ pc[p] = "call"
    /\ call[p].op = "get_available_filename"
    /\ LET entry == GafEntry(call[p].filename)
       IN  IF entry.ok
           THEN /\ gaf' = [gaf EXCEPT ![p] =
                             [origin_path |-> entry.val, max_len |-> call[p].max_len,
                              filename |-> call[p].filename, caller |-> "caller"]]
                /\ pc' = [pc EXCEPT ![p] = "resolve"]
                /\ UNCHANGED result
           ELSE /\ Finish(p, entry)
                /\ UNCHANGED gaf
    /\ UNCHANGED <<location, base_url, files, call, log>>

(***************************************************************************)
(* BaseStorage.save and FileSystemStorage._save.                           *)
(***************************************************************************)
\* save(filename, data, max_len) is called: get_available_filename starts
SaveCall(p) ==
    /\ pc[p] = "call"
    /\ call[p].op = "save"
    /\ LET entry == GafEntry(call[p].filename)
       IN  IF entry.ok
           THEN /\ gaf' = [gaf EXCEPT ![p] =
                             [origin_path |-> entry.val, max_len |-> call[p].max_len,
                              filename |-> call[p].filename, caller |-> "save"]]
                /\ pc' = [pc EXCEPT ![p] = "resolve"]
                /\ UNCHANGED result
           ELSE /\ Finish(p, entry)
                /\ UNCHANGED gaf
    /\ UNCHANGED <<location, base_url, files, call, log>>

\* _save: dst_path and os.makedirs(dst_path.parent, exist_ok=True)
SaveMakedirs(p) ==
    /\ pc[p] = "makedirs"
    /\ LET dst_path == safe_join(location, gaf[p].filename)
           parent   == ParentOf(PathOf(dst_path.val))
       IN  IF ~dst_path.ok
           THEN Finish(p, dst_path) /\ UNCHANGED <<files, log>>
           ELSE IF MakedirsFails(files, parent)
           THEN /\ Finish(p, Fail(OSError))
                /\ log' = [log EXCEPT ![p].paths = @ \cup {StrOf(parent)}]
                /\ UNCHANGED files
           ELSE /\ files' = Makedirs(files, parent, p)
                /\ log' = [log EXCEPT ![p].paths =
                              @ \cup {StrOf(parent)} \cup (Ancestors(parent) \ DOMAIN files)]
                /\ pc' = [pc EXCEPT ![p] = "open"]
                /\ UNCHANGED result
    /\ UNCHANGED <<location, base_url, call, gaf>>

\* the retry after FileExistsError:
\* filename = await self.get_available_filename(filename)
SaveRetry(p) ==
    LET entry == GafEntry(gaf[p].filename)
    IN  /\ log' = [log EXCEPT ![p].retries = @ + 1]
        /\ IF entry.ok
           THEN /\ gaf' = [gaf EXCEPT ![p] =
                             [origin_path |-> entry.val, max_len |-> 0,
                              filename |-> gaf[p].filename, caller |-> "_save"]]
                /\ pc' = [pc EXCEPT ![p] = "resolve"]
                /\ UNCHANGED result
           ELSE /\ Finish(p, entry)
                /\ UNCHANGED gaf

\* _save: aiofiles.open(dst_path, "xb")
SaveOpen(p) ==
    /\ pc[p] = "open"
    /\ LET dst_path == safe_join(location, gaf[p].filename).val
       IN  IF CreateCollides(files, dst_path)
           THEN SaveRetry(p) /\ UNCHANGED files
           ELSE IF OpenFails(files, dst_path)
           THEN Finish(p, Fail(OSError)) /\ UNCHANGED <<files, gaf, log>>
           ELSE /\ files' = (dst_path :> [kind |-> "file", owner |-> p, data |-> <<>>])
                                @@ files
                /\ log' = Logged(p, dst_path)
                /\ pc' = [pc EXCEPT ![p] = "write"]
                /\ UNCHANGED <<gaf, result>>
    /\ UNCHANGED <<location, base_url, call>>

\* _save: fd.write(data.read()) and the return; save: the validation of the
\* name _save returned, and the return
SaveWrite(p) ==
    /\ pc[p] = "write"
    /\ LET dst_path == safe_join(location, gaf[p].filename).val
           checked  == validate_file_name(gaf[p].filename, TRUE)
       IN  /\ files' = IF lexists(files, dst_path) /\ files[dst_path].owner = p
                       THEN [files EXCEPT ![dst_path].data = DataOf(p)]
                       ELSE files
           /\ Finish(p, checked)
    /\ UNCHANGED <<location, base_url, call, gaf, log>>

(***************************************************************************)
(* safe_join, FileSystemStorage.exists and FileSystemStorage.delete.       *)
(***************************************************************************)
\* safe_join(location, filename) is called
JoinCall(p) ==
    /\ pc[p] = "call"
    /\ call[p].op = "safe_join"
    /\ Finish(p, safe_join(location, call[p].filename))
    /\ UNCHANGED <<location, base_url, files, call, gaf, log>>

\* an exists that leaves an empty file where it looked
ExistsCall_Creates(p) ==
    /\ pc[p] = "call"
    /\ call[p].op = "exists"
    /\ LET dst_path == safe_join(location, call[p].filename)
       IN  /\ Finish(p, FsExists(location, files, call[p].filename))
           /\ files' = IF dst_path.ok /\ ~lexists(files, dst_path.val)
                       THEN (dst_path.val :> [kind |-> "file", owner |-> p, data |-> <<>>])
                                @@ files
                       ELSE files
    /\ UNCHANGED <<location, base_url, call, gaf, log>>

\* exists(filename) is called
ExistsCall(p) ==
    /\ pc[p] = "call"
    /\ call[p].op = "exists"
    /\ LET dst_path == safe_join(location, call[p].filename)
       IN  /\ Finish(p, FsExists(location, files, call[p].filename))
           /\ log' = IF dst_path.ok THEN Logged(p, dst_path.val) ELSE log
    /\ UNCHANGED <<location, base_url, files, call, gaf>>

\* delete(filename) is called: if await self.exists(filename)
DeleteCall(p) ==
    /\ pc[p] = "call"
    /\ call[p].op = "delete"
    /\ LET dst_path == safe_join(location, call[p].filename)
           answer   == FsExists(location, files, call[p].filename)
       IN  /\ log' = IF dst_path.ok THEN Logged(p, dst_path.val) ELSE log
           /\ IF ~answer.ok THEN Finish(p, answer)
              ELSE IF ~answer.val THEN Finish(p, Ok(None))
              ELSE /\ pc' = [pc EXCEPT ![p] = "unlink"]
                   /\ UNCHANGED result
    /\ UNCHANGED <<location, base_url, files, call, gaf>>

\* os.unlink raises: the path is gone, or it is a directory
UnlinkFails(fs, dst_path) == ~lexists(fs, dst_path) \/ fs[dst_path].kind = "dir"

\* delete returning without the unlink
DeleteUnlink_KeepsFile(p) ==
    /\ pc[p] = "unlink"
    /\ Finish(p, Ok(None))
    /\ UNCHANGED <<location, base_url, files, call, gaf, log>>

\* delete: aiofiles.os.unlink(safe_join(self.location, filename))
DeleteUnlink(p) ==
    /\ pc[p] = "unlink"
    /\ LET dst_path == safe_join(location, call[p].filename).val
       IN  /\ log' = Logged(p, dst_path)
           /\ IF UnlinkFails(files, dst_path)
              THEN Finish(p, Fail(OSError)) /\ UNCHANGED files
              ELSE /\ files' = [a \in DOMAIN files \ {dst_path} |-> files[a]]
                   /\ Finish(p, Ok(None))
    /\ UNCHANGED <<location, base_url, call, gaf>>

(***************************************************************************)
(* The inputs.                                                             *)
(***************************************************************************)
\* the strings of at most n characters of cs
RECURSIVE Strings(_, _)
Strings(cs, n) ==
    IF n = 0 THEN {<<>>}
    ELSE LET shorter == Strings(cs, n - 1)
         IN  shorter \cup {s \o <<c>> : s \in {t \in shorter : Len(t) = n - 1}, c \in cs}

Idle == [op |-> None, filename |-> <<>>, max_len |-> 0]

\* a store at loc holding one file, a
OneFile(loc) ==
    RootOnly(loc) @@
    (StrOf(JoinPath(loc, PathOf(<<"a">>))) :> [kind |-> "file", owner |-> 0, data |-> <<"old">>])

Locations == {PathOf(<<SEP>>), PathOf(<<SEP, "r">>)}

\* caller 1 makes the call c, the other callers make none
OnlyCaller1(c) ==
    /\ call = [p \in Procs |-> IF p = 1 THEN c ELSE Idle]
    /\ pc = [p \in Procs |-> IF p = 1 THEN "call" ELSE "done"]
    /\ gaf = [p \in Procs |-> NoFrame]
    /\ result = [p \in Procs |-> NoResult]
    /\ log = [p \in Procs |-> NoLog]

\* one call on a store of one file: any operation, any short filename
InitJoin ==
    /\ location \in Locations
    /\ base_url = NoBase
    /\ files = OneFile(location)
    /\ \E op \in {"safe_join", "exists", "delete", "save"},
          filename \in Strings({"a", DOT, SEP, "r"}, MaxJoinLen) :
            OnlyCaller1([op |-> op, filename |-> filename, max_len |-> 0])

NextJoin ==
    \E p \in Procs :
        \/ JoinCall(p)
        \/ ExistsCall(p)
        \/ DeleteCall(p)
        \/ DeleteUnlink(p)
        \/ SaveCall(p)
        \/ FsResolve(p)
        \/ SaveMakedirs(p)
        \/ SaveOpen(p)
        \/ SaveWrite(p)

SpecJoin == InitJoin /\ [][NextJoin]_vars

\* desired names longer than every max_len, without and with an extension
LongNames ==
    {[i \in 1..(MaxMaxLen + 1) |-> "a"],
     [i \in 1..MaxMaxLen |-> "a"] \o <<DOT, "t">>}

\* one call of get_available_filename on a BaseStorage whose exists is a
\* mock: any short desired name or a long one, any max_len
InitResolve ==
    /\ location = PathOf(<<SEP, "r">>)
    /\ base_url = NoBase
    /\ files = RootOnly(location)
    /\ \E filename \in Strings({"a", "b", DOT, SEP}, MaxNameLen) \cup LongNames,
          max_len \in 0..MaxMaxLen :
            OnlyCaller1([op |-> "get_available_filename", filename |-> filename,
                         max_len |-> max_len])

NextResolve ==
    \E p \in Procs :
        \/ ResolveCall(p)
        \/ MockResolve(p)

SpecResolve == InitResolve /\ [][NextResolve]_vars

\* the desired names and the max_len of the concurrent callers: a name with
\* an extension, a name in a directory, the name of that directory, an
\* absolute name below the location, a name above the location
SaveNames ==
    << <<"a", "b", DOT, "t">>,
       <<"d", SEP, "a">>,
       <<"d">>,
       <<SEP, "r", SEP, "a">>,
       <<DOT, DOT, SEP, "a">> >>

SaveMaxLens == <<0, 11>>

SaveCalls ==
    [i \in 1..(Len(SaveNames) * Len(SaveMaxLens)) |->
        [op       |-> "save",
         filename |-> SaveNames[((i - 1) \div Len(SaveMaxLens)) + 1],
         max_len  |-> SaveMaxLens[((i - 1) % Len(SaveMaxLens)) + 1]]]

OtherCalls ==
    << [op |-> "exists", filename |-> <<"a", "b", DOT, "t">>, max_len |-> 0],
       [op |-> "exists", filename |-> <<"d">>, max_len |-> 0],
       [op |-> "delete", filename |-> <<"a", "b", DOT, "t">>, max_len |-> 0],
       [op |-> "delete", filename |-> <<"d">>, max_len |-> 0] >>

\* every caller makes one of calls on an empty store; the callers are
\* interchangeable, so of the ways to hand the same calls to the callers
\* only the one in the order of calls is started
InitCalls(calls) ==
    /\ location = PathOf(<<SEP, "r">>)
    /\ base_url = NoBase
    /\ files = RootOnly(location)
    /\ \E idx \in [Procs -> 1..Len(calls)] :
          /\ \A p \in Procs, q \in Procs : p < q => idx[p] <= idx[q]
          /\ call = [p \in Procs |-> calls[idx[p]]]
    /\ pc = [p \in Procs |-> "call"]
    /\ gaf = [p \in Procs |-> NoFrame]
    /\ result = [p \in Procs |-> NoResult]
    /\ log = [p \in Procs |-> NoLog]

\* concurrent calls of save
InitSave == InitCalls(SaveCalls)

NextSave ==
    \E p \in Procs :
        \/ SaveCall(p)
        \/ FsResolve(p)
        \/ SaveMakedirs(p)
        \/ SaveOpen(p)
        \/ SaveWrite(p)

SpecSave == InitSave /\ [][NextSave]_vars

\* concurrent calls of save, exists and delete
Init == InitCalls(SaveCalls \o OtherCalls)

Next ==
    \E p \in Procs :
        \/ SaveCall(p)
        \/ FsResolve(p)
        \/ SaveMakedirs(p)
        \/ SaveOpen(p)
        \/ SaveWrite(p)
        \/ ExistsCall(p)
        \/ DeleteCall(p)
        \/ DeleteUnlink(p)

Spec == Init /\ [][Next]_vars

(***************************************************************************)
(* Properties of safe_join and of the paths the operations touch,          *)
(* under SpecJoin.                                                         *)
(***************************************************************************)
Finished(p) == pc[p] \in {"done", "failed"}

\* filename has a ".." component
HasDotDot(filename) ==
    \E i \in 1..Len(PathOf(filename).parts) : PathOf(filename).parts[i] = <<DOT, DOT>>

\* the depths below "/" a walk along parts passes, from depth d: ".." goes
\* up and stays at "/", any other component goes down
RECURSIVE Depths(_, _)
Depths(d, parts) ==
    IF parts = <<>> THEN <<d>>
    ELSE <<d>> \o Depths(IF parts[1] = <<DOT, DOT>> THEN (IF d = 0 THEN 0 ELSE d - 1)
                         ELSE d + 1, Tail(parts))

\* the depths joining filename to loc passes
JoinDepths(loc, filename) ==
    Depths(IF IsAbsolute(PathOf(filename)) THEN 0 ELSE Len(loc.parts),
           PathOf(filename).parts)

\* the walk ends above loc
EndsAbove(loc, filename) ==
    JoinDepths(loc, filename)[Len(JoinDepths(loc, filename))] < Len(loc.parts)

\* the walk never leaves loc
StaysBelow(loc, filename) ==
    /\ ~IsAbsolute(PathOf(filename)) \/ loc.parts = <<>>
    /\ \A i \in 1..Len(JoinDepths(loc, filename)) :
           JoinDepths(loc, filename)[i] >= Len(loc.parts)

\* path is loc or lies below it
Within(loc, path) == IsRelativeTo(PathOf(path), loc)

\* filename names something below the root: it is relative, has no ".."
\* and has a component
NamesBelow(filename) ==
    /\ ~IsAbsolute(PathOf(filename))
    /\ ~HasDotDot(filename)
    /\ PathOf(filename).parts # <<>>

C4_RootOnlyWhenEmpty ==
    \A p \in Procs :
        /\ (call[p].op = "safe_join" /\ pc[p] = "done")
              => /\ Within(location, result[p].val)
                 /\ result[p].val = StrOf(location) => call[p].filename = <<>>
        /\ (call[p].op \in {"exists", "save", "delete"} /\ call[p].filename # <<>>)
              => \A path \in log[p].paths :
                     Within(location, path) /\ path # StrOf(location)
        /\ (call[p].op \in {"exists", "save", "delete"} /\ Finished(p)
               /\ ~safe_join(location, call[p].filename).ok)
              => result[p] = Fail(PathTraversal) /\ files = OneFile(location)

\* C4, amended: what safe_join returns is the root or below it, and is the
\* root only for a filename that names nothing below the root (empty, ".",
\* one whose ".." cancel its components, an absolute one); every path
\* exists, save and delete touch is the root or below it, and every path
\* save creates is strictly below the root; a filename that resolves
\* elsewhere fails with PathTraversal, or with InvalidName, and leaves the
\* store.
C4_JoinedPathWithinRoot ==
    \A p \in Procs :
        /\ (call[p].op = "safe_join" /\ pc[p] = "done")
              => /\ Within(location, result[p].val)
                 /\ result[p].val = StrOf(location) => ~NamesBelow(call[p].filename)
        /\ \A path \in log[p].paths : Within(location, path)
        /\ \A path \in DOMAIN files :
              files[path].owner = p => Within(location, path) /\ path # StrOf(location)
        /\ (call[p].op \in {"exists", "save", "delete"} /\ Finished(p)
               /\ ~safe_join(location, call[p].filename).ok)
              => /\ result[p] \in {Fail(PathTraversal), Fail(InvalidName)}
                 /\ files = OneFile(location)

\* exists of a non-empty filename looked at the root itself
C4_Witness ==
    \E p \in Procs :
        /\ call[p].op = "exists" /\ pc[p] = "done"
        /\ call[p].filename # <<>>
        /\ StrOf(location) \in log[p].paths

(***************************************************************************)
(* Properties of get_available_filename, under SpecResolve.                *)
(***************************************************************************)
Resolving(p) == call[p].op = "get_available_filename"

\* the desired name as a path
Desired(p) == PathOf(call[p].filename)

\* name is the desired name of p with its stem replaced by stem, the
\* separator and one random string
Randomized(p, stem, name) ==
    \E s \in RandomStrings :
        name = StrOf(WithStem(Desired(p), stem \o <<sep>> \o s))

\* C3: with max_len > 0 a returned name is at most max_len long, and when
\* it is not the desired name it is the desired name with its stem replaced
\* by a non-empty prefix of that stem, the separator and one random string.
C3_TruncatesOriginalStem ==
    \A p \in Procs :
        (Resolving(p) /\ pc[p] = "done" /\ call[p].max_len > 0)
            => /\ Len(result[p].val) <= call[p].max_len
               /\ result[p].val # call[p].filename
                    => \E n \in 1..Len(StemOf(Desired(p))) :
                           Randomized(p, SubSeq(StemOf(Desired(p)), 1, n), result[p].val)

\* a name was returned whose stem lost characters to the budget
C3_Witness ==
    \E p \in Procs :
        /\ Resolving(p) /\ pc[p] = "done" /\ call[p].max_len > 0
        /\ Len(log[p].candidate) > call[p].max_len
        /\ Len(result[p].val) = call[p].max_len
        /\ \E n \in 1..(Len(StemOf(Desired(p))) - 1) :
               Randomized(p, SubSeq(StemOf(Desired(p)), 1, n), result[p].val)

\* the desired name is within the budget
Fits(p) == call[p].max_len = 0 \/ Len(call[p].filename) <= call[p].max_len

\* C8: the name returned is the one the last call of exists was asked
\* about, that call answered false, and the name is within the budget; when
\* exists is false for a desired name within the budget the desired name is
\* returned and no random string is drawn.
C8_ReturnsFirstFreeCandidate ==
    \A p \in Procs :
        Resolving(p) =>
            /\ pc[p] = "done"
                 => /\ log[p].asked # <<>>
                    /\ log[p].asked[Len(log[p].asked)] = result[p].val
                    /\ log[p].answers[Len(log[p].answers)] = Ok(FALSE)
                    /\ call[p].max_len > 0 => Len(result[p].val) <= call[p].max_len
            /\ (log[p].answers # <<>> /\ log[p].answers[1] = Ok(FALSE) /\ Fits(p))
                 => /\ pc[p] = "done"
                    /\ result[p] = Ok(call[p].filename)
                    /\ log[p].draws = 0
                    /\ Len(log[p].asked) = 1

\* a candidate was returned after exists answered true for the desired name
C8_Witness ==
    \E p \in Procs :
        /\ Resolving(p) /\ pc[p] = "done"
        /\ Len(log[p].answers) = 2
        /\ log[p].answers[1] = Ok(TRUE)
        /\ result[p].val # call[p].filename

\* the desired name exists and max_len is 0
Collides(p) ==
    /\ Resolving(p) /\ call[p].max_len = 0
    /\ log[p].answers # <<>> /\ log[p].answers[1] = Ok(TRUE)

\* C9, as claimed: with max_len = 0 and a desired name that exists, the
\* name returned after any number of colliding candidates differs from the
\* desired name, is the desired name with its stem replaced by the stem,
\* the separator and 7 random characters, and is 8 longer than the desired
\* name.
C9_EightLongerThanDesired ==
    \A p \in Procs :
        (Collides(p) /\ pc[p] = "done")
            => /\ result[p].val # call[p].filename
               /\ Randomized(p, StemOf(Desired(p)), result[p].val)
               /\ Len(result[p].val) = Len(call[p].filename) + 8

\* C9, amended: the same, the name returned being 8 longer than the desired
\* name as pathlib renders it (without "." segments, doubled or trailing
\* slashes).
C9_EightLongerThanNormalForm ==
    \A p \in Procs :
        (Collides(p) /\ pc[p] = "done")
            => /\ result[p].val # call[p].filename
               /\ Randomized(p, StemOf(Desired(p)), result[p].val)
               /\ Len(result[p].val) = Len(StrOf(Desired(p))) + random_length + 1
               /\ ParentOf(PathOf(result[p].val)) = ParentOf(Desired(p))
               /\ \A i \in 1..random_length :
                      \E j \in 1..Len(RANDOM_STRING_CHARS) :
                          result[p].val[Len(result[p].val) - Len(SuffixOf(Desired(p)))
                                            - random_length + i]
                              = RANDOM_STRING_CHARS[j]

\* a name was returned after two colliding candidates
C9_Witness ==
    \E p \in Procs :
        /\ Collides(p) /\ pc[p] = "done"
        /\ Len(log[p].answers) = 3
        /\ log[p].answers[2] = Ok(TRUE)
        /\ Len(result[p].val) = Len(call[p].filename) + 8

\* C10: with max_len > 0 the call fails with ExhaustedNameSpace exactly
\* when the loop body made a candidate that exceeds max_len by at least the
\* length of the desired stem; the call has then ended, exists is not
\* called and no candidate is made any more.
C10_ExhaustedWhenStemUsedUp ==
    /\ [](\A p \in Procs :
            (Resolving(p) /\ call[p].max_len > 0)
                => /\ result[p] = Fail(ExhaustedNameSpace)
                      <=> /\ log[p].candidate # <<>>
                          /\ Len(log[p].candidate) - call[p].max_len
                                >= Len(StemOf(Desired(p)))
                   /\ result[p] = Fail(ExhaustedNameSpace) => pc[p] = "failed")
    /\ [][\A p \in Procs :
            result[p] = Fail(ExhaustedNameSpace) => log'[p] = log[p] /\ gaf'[p] = gaf[p]]_vars

\* the call failed for a stem of one character and a max_len below the
\* length of the suffix
C10_Witness ==
    \E p \in Procs :
        /\ Resolving(p) /\ call[p].max_len > 0
        /\ Len(StemOf(Desired(p))) = 1
        /\ call[p].max_len < random_length
        /\ result[p] = Fail(ExhaustedNameSpace)

(***************************************************************************)
(* Properties of concurrent calls of save, under SpecSave.                 *)
(***************************************************************************)
Saving(p) == call[p].op = "save"

\* the path the name returned to p stands for
StoredPath(p) == safe_join(location, result[p].val).val

\* C1: in every interleaving of concurrent calls of save, no step changes
\* the owner of a path or puts other bytes in a file than its creator's,
\* two calls that returned did not return the same name or path, and the
\* file under the name a call returned is the one that call created, with
\* its data.
C1_ExclusiveCreateKeepsSavesApart ==
    /\ [](\A p \in Procs :
            (Saving(p) /\ pc[p] = "done")
                => /\ lexists(files, StoredPath(p))
                   /\ files[StoredPath(p)] =
                          [kind |-> "file", owner |-> p, data |-> DataOf(p)]
                   /\ \A q \in Procs \ {p} :
                          (Saving(q) /\ pc[q] = "done")
                              => /\ result[q].val # result[p].val
                                 /\ StoredPath(q) # StoredPath(p))
    /\ [][\A path \in DOMAIN files :
            /\ path \in DOMAIN files'
            /\ files'[path].kind = files[path].kind
            /\ files'[path].owner = files[path].owner
            /\ files'[path].data \in {files[path].data, DataOf(files[path].owner)}]_vars

\* two calls with the same desired name returned, one of them after its
\* exclusive create had failed
C1_Witness ==
    \E p \in Procs, q \in Procs :
        /\ p # q /\ Saving(p) /\ Saving(q)
        /\ call[p].filename = call[q].filename
        /\ pc[p] = "done" /\ pc[q] = "done"
        /\ log[q].retries > 0

\* C2: a call of save with max_len > 0 that returns, returns a name of at
\* most max_len characters, in every interleaving with other writers.
C2_SavedNameWithinMaxLen ==
    \A p \in Procs :
        (Saving(p) /\ call[p].max_len > 0 /\ pc[p] = "done")
            => Len(result[p].val) <= call[p].max_len

\* C6: a call of save that fails with InvalidName or PathTraversal has
\* created no file and no directory.
C6_RejectedSaveWritesNothing ==
    \A p \in Procs :
        (Saving(p) /\ pc[p] = "failed"
            /\ result[p] \in {Fail(InvalidName), Fail(PathTraversal)})
            => \A path \in DOMAIN files : files[path].owner # p

\* C7: the name a call of save returns is not empty, not absolute, has no
\* ".." segment, and its final component is not empty, "." or "..".
C7_SavedNameIsRelative ==
    \A p \in Procs :
        (Saving(p) /\ pc[p] = "done")
            => /\ result[p].val # <<>>
               /\ result[p].val[1] # SEP
               /\ \A i \in 1..Len(Split(result[p].val)) :
                      Split(result[p].val)[i] # <<DOT, DOT>>
               /\ NameOf(PathOf(result[p].val)) \notin {<<>>, <<DOT>>, <<DOT, DOT>>}

\* a call returned a name it got from the retry after a failed create
C7_Witness ==
    \E p \in Procs :
        /\ Saving(p) /\ pc[p] = "done"
        /\ log[p].retries > 0
        /\ result[p].val # call[p].filename

(***************************************************************************)
(* The retry of save after a failed exclusive create, under SpecSave.      *)
(***************************************************************************)
\* C11: a call of save whose exclusive create failed because the target
\* was there never ends with that condition: once it has ended it has
\* returned a name, and its data is stored under that name.
C11_CollidedSaveReturnsItsName ==
    \A p \in Procs :
        (Saving(p) /\ log[p].retries > 0 /\ Finished(p))
            => /\ pc[p] = "done"
               /\ lexists(files, StoredPath(p))
               /\ files[StoredPath(p)] =
                      [kind |-> "file", owner |-> p, data |-> DataOf(p)]

(***************************************************************************)
(* A caller that makes one call after the other: the sequential histories  *)
(* of save, exists and delete on one FileSystemStorage.                    *)
(***************************************************************************)
\* the path filename stands for, or no path when safe_join refuses it
PathFor(filename) ==
    IF safe_join(location, filename).ok THEN safe_join(location, filename).val
    ELSE <<>>

\* what the caller knows of its earlier calls once call c with outcome r
\* has ended in the store fs
AfterReturn(lg, c, r, fs) ==
    CASE c.op = "save" /\ r.ok ->
            [lg EXCEPT !.returned = @ \cup {r.val},
                       !.saved    = @ \cup {r.val},
                       !.deleted  = @ \ {r.val},
                       !.kept     = @ \cup {PathFor(r.val)},
                       !.removed  = @ \ DOMAIN fs]
      [] c.op = "save" /\ ~r.ok ->
            [lg EXCEPT !.removed = @ \ DOMAIN fs]
      [] c.op = "delete" /\ r.ok ->
            [lg EXCEPT !.deleted = @ \cup {c.filename},
                       !.removed = @ \cup {PathFor(c.filename)}]
      [] OTHER -> lg

\* and once it makes the call c
BeforeCall(lg, c) ==
    IF c.op = "delete"
    THEN [lg EXCEPT !.saved = @ \ {c.filename},
                    !.kept  = @ \ {PathFor(c.filename)}]
    ELSE lg

\* the names of the calls: a name, another spelling of it, its absolute
\* spelling, a name in a directory and the name of that directory
SeqNames ==
    {<<"a">>, <<DOT, SEP, "a">>, <<SEP, "r", SEP, "a">>, <<"d", SEP, "a">>, <<"d">>}

\* the caller's call has ended and it makes its next one: a save of one of
\* SeqNames, or exists or delete of one of them or of a name save returned
Again(p) ==
    /\ Finished(p)
    /\ call[p].op \in {"save", "exists", "delete"}
    /\ log[p].calls < MaxCalls
    /\ \E op \in {"save", "exists", "delete"},
          filename \in SeqNames \cup log[p].returned
                       \cup (IF call[p].op = "save" /\ result[p].ok
                             THEN {result[p].val} ELSE {}) :
          LET c    == [op |-> op, filename |-> filename, max_len |-> 0]
              past == AfterReturn(log[p], call[p], result[p], files)
          IN  /\ op = "save" => filename \in SeqNames
              /\ call' = [call EXCEPT ![p] = c]
              /\ log' = [log EXCEPT ![p] =
                           [BeforeCall(past, c) EXCEPT
                               !.asked = <<>>, !.answers = <<>>, !.draws = 0,
                               !.candidate = <<>>, !.paths = {}, !.retries = 0,
                               !.calls = @ + 1]]
    /\ pc' = [pc EXCEPT ![p] = "call"]
    /\ gaf' = [gaf EXCEPT ![p] = NoFrame]
    /\ result' = [result EXCEPT ![p] = NoResult]
    /\ UNCHANGED <<location, base_url, files>>

\* one caller, an empty store, a first call
InitSeq ==
    /\ location = PathOf(<<SEP, "r">>)
    /\ base_url = NoBase
    /\ files = RootOnly(location)
    /\ \E op \in {"save", "exists", "delete"}, filename \in SeqNames :
          OnlyCaller1([op |-> op, filename |-> filename, max_len |-> 0])

NextSeq ==
    \E p \in Procs :
        \/ SaveCall(p)
        \/ FsResolve(p)
        \/ SaveMakedirs(p)
        \/ SaveOpen(p)
        \/ SaveWrite(p)
        \/ ExistsCall(p)
        \/ DeleteCall(p)
        \/ DeleteUnlink(p)
        \/ Again(p)

SpecSeq == InitSeq /\ [][NextSeq]_vars

(***************************************************************************)
(* Properties of the sequential histories, under SpecSeq.                  *)
(***************************************************************************)
\* the caller's call of op has ended
Ended(p, op) == call[p].op = op /\ Finished(p)

\* a save that returns, returns a name other than the names of the files
\* earlier saves left and no delete was called for
LaterSaveReturnsAnotherName(p) ==
    (Ended(p, "save") /\ pc[p] = "done")
        => /\ PathFor(result[p].val) \notin log[p].kept
           /\ \A n \in log[p].returned :
                  PathFor(n) \in log[p].kept => result[p].val # n

\* C12, as claimed: in a sequential history exists(n) is true for a name n
\* that save returned and delete(n) was not called with since, and false
\* for a name delete(n) returned for, and false for a name save never
\* returned; a save returns a name other than the names still there.
C12_ExistsFollowsSaveAndDelete ==
    \A p \in Procs :
        /\ Ended(p, "exists") =>
              /\ call[p].filename \in log[p].saved => result[p] = Ok(TRUE)
              /\ call[p].filename \in log[p].deleted => result[p] = Ok(FALSE)
              /\ call[p].filename \notin log[p].returned => result[p] = Ok(FALSE)
        /\ LaterSaveReturnsAnotherName(p)

\* C12, amended: exists(n) is true while the path of n is that of a name
\* save returned and no delete was called for that path since; it is false
\* once a delete for the path of n has returned, until a save makes a file
\* or a directory there; it is true only for the root, the directories
\* above it, and the files and directories that calls of save made; a save
\* returns a name other than the names still there.
C12_ExistsFollowsPaths ==
    \A p \in Procs :
        /\ Ended(p, "exists") =>
              /\ PathFor(call[p].filename) \in log[p].kept => result[p] = Ok(TRUE)
              /\ PathFor(call[p].filename) \in log[p].removed => result[p] = Ok(FALSE)
              /\ result[p] = Ok(TRUE) =>
                    \/ PathFor(call[p].filename) \in Ancestors(location)
                    \/ files[PathFor(call[p].filename)].owner \in Procs
        /\ LaterSaveReturnsAnotherName(p)

\* save returned a name, exists of it was true, a later save of the same
\* desired name returned another name, delete of the first name returned,
\* and exists of it has answered false
C12_Witness ==
    \E p \in Procs :
        /\ Ended(p, "exists") /\ result[p] = Ok(FALSE)
        /\ call[p].filename = <<"a">>
        /\ PathFor(<<"a">>) \in log[p].removed
        /\ Cardinality(log[p].returned) = 2
        /\ log[p].kept # {}

(***************************************************************************)
(* Concurrent calls of delete, with calls of exists and save, on a store   *)
(* that holds the file a.                                                  *)
(***************************************************************************)
\* delete of the name that is there and of one that is not, exists and
\* save of the name that is there
DeleteCalls ==
    << [op |-> "delete", filename |-> <<"a">>, max_len |-> 0],
       [op |-> "delete", filename |-> <<"b">>, max_len |-> 0],
       [op |-> "exists", filename |-> <<"a">>, max_len |-> 0],
       [op |-> "save", filename |-> <<"a">>, max_len |-> 0] >>

InitDelete ==
    /\ location = PathOf(<<SEP, "r">>)
    /\ base_url = NoBase
    /\ files = OneFile(location)
    /\ \E idx \in [Procs -> 1..Len(DeleteCalls)] :
          /\ \A p \in Procs, q \in Procs : p < q => idx[p] <= idx[q]
          /\ call = [p \in Procs |-> DeleteCalls[idx[p]]]
    /\ pc = [p \in Procs |-> "call"]
    /\ gaf = [p \in Procs |-> NoFrame]
    /\ result = [p \in Procs |-> NoResult]
    /\ log = [p \in Procs |-> NoLog]

NextDelete ==
    \E p \in Procs :
        \/ DeleteCall(p)
        \/ DeleteUnlink(p)
        \/ ExistsCall(p)
        \/ SaveCall(p)
        \/ FsResolve(p)
        \/ SaveMakedirs(p)
        \/ SaveOpen(p)
        \/ SaveWrite(p)

SpecDelete == InitDelete /\ [][NextDelete]_vars

\* C13: in every interleaving of calls of delete with each other and with
\* calls of save and exists, a call of delete that has ended has raised
\* nothing, and once every call has ended a name that delete was called
\* with is not in the store unless a concurrent save made it.
C13_DeleteNeverFails ==
    \A p \in Procs :
        Ended(p, "delete")
            => /\ result[p] = Ok(None)
               /\ (\A q \in Procs : Finished(q))
                     => \/ ~lexists(files, PathFor(call[p].filename))
                        \/ files[PathFor(call[p].filename)].owner \in Procs

(***************************************************************************)
(* Concurrent calls of save with different names, under SpecSave.          *)
(***************************************************************************)
\* the outcomes of save(filename, data, max_len) when it runs alone on the
\* store that holds the location only: exists answers false, makedirs and
\* the exclusive create succeed
SaveAlone(loc, filename, max_len) ==
    LET entry == GafEntry(filename)
        names == IF ~entry.ok THEN {entry}
                 ELSE IF GafLoops(filename, max_len, FALSE)
                 THEN {GafBody(entry.val, max_len, s1, s2) :
                          s1 \in RandomStrings, s2 \in RandomStrings}
                 ELSE {Ok(filename)}
    IN  {IF ~n.ok THEN n
         ELSE IF ~safe_join(loc, n.val).ok THEN safe_join(loc, n.val)
         ELSE validate_file_name(n.val, TRUE) : n \in names}

Alone(p) == SaveAlone(location, call[p].filename, call[p].max_len)

\* the call of p ended as it would have alone, and what it returned holds
\* its data
EndedAsAlone(p) ==
    /\ result[p] \in Alone(p)
    /\ result[p].ok
          => /\ lexists(files, StoredPath(p))
             /\ files[StoredPath(p)] = [kind |-> "file", owner |-> p, data |-> DataOf(p)]

\* alone, p and q return, and return different names
ResolvedNamesDiffer(p, q) ==
    \A r \in Alone(p), t \in Alone(q) : r.ok /\ t.ok /\ r.val # t.val

\* the desired names of p and q stand for paths of which none is the other
\* or above the other
PathsApart(p, q) ==
    \/ PathFor(call[p].filename) = <<>>
    \/ PathFor(call[q].filename) = <<>>
    \/ /\ ~Within(PathOf(PathFor(call[p].filename)), PathFor(call[q].filename))
       /\ ~Within(PathOf(PathFor(call[q].filename)), PathFor(call[p].filename))

\* C14, as claimed: of concurrent calls of save that alone return
\* different names, each returns, in every interleaving, the name it
\* returns alone and stores its data under it, also when one name is the
\* parent directory of the other.
C14_DifferentNamesDoNotInterfere ==
    \A p \in Procs :
        (Saving(p) /\ Finished(p)
            /\ \A q \in Procs \ {p} : Saving(q) /\ ResolvedNamesDiffer(p, q))
            => EndedAsAlone(p)

\* C14, amended: a call of save ends, in every interleaving, as it ends
\* alone, with its data under the name it returns, when the path of its
\* desired name and the paths of the desired names of the concurrent calls
\* are different and none is above another; a call that ran while no other
\* had begun ends so as well.
C14_SeparatePathsDoNotInterfere ==
    \A p \in Procs :
        (Saving(p) /\ Finished(p))
            => /\ (\A q \in Procs \ {p} : Saving(q) /\ PathsApart(p, q))
                     => EndedAsAlone(p)
               /\ (\A q \in Procs \ {p} : pc[q] = "call") => EndedAsAlone(p)

\* a save of a name in a directory and a save of a name in the location
\* both returned, each after the other had begun
C14_Witness ==
    \E p \in Procs, q \in Procs :
        /\ Saving(p) /\ Saving(q)
        /\ call[p].filename = <<"a", "b", DOT, "t">>
        /\ call[q].filename = <<"d", SEP, "a">>
        /\ pc[p] = "done" /\ pc[q] = "done"
        /\ files[StoredPath(p)].data = DataOf(p)
        /\ files[StoredPath(q)].data = DataOf(q)

(***************************************************************************)
(* FileSystemStorage.url.                                                  *)
(***************************************************************************)
\* s.lstrip(c)
LStrip(s, c) == SubSeq(s, LeadCount(s, c) + 1, Len(s))

\* s.rstrip(c)
RECURSIVE RStrip(_, _)
RStrip(s, c) ==
    IF s # <<>> /\ s[Len(s)] = c THEN RStrip(SubSeq(s, 1, Len(s) - 1), c) ELSE s

\* ValueError("Invalid base_url")
Misconfigured == "Misconfigured"

\* the property base_url.  It is cached once it has returned; _base_url
\* does not change, so the cached value is the value computed anew.
BaseUrlOf(b) ==
    IF ~b.given \/ b.str = <<>> THEN Fail(Misconfigured)
    ELSE Ok(RStrip(b.str, SEP))

\* url looking at base_url before it validates the name
url_BaseFirst(b, filename) ==
    IF ~BaseUrlOf(b).ok THEN BaseUrlOf(b)
    ELSE IF ~validate_file_name(filename, TRUE).ok
    THEN validate_file_name(filename, TRUE)
    ELSE Ok(BaseUrlOf(b).val \o <<SEP>> \o LStrip(filename, SEP))

\* url(filename): validate_file_name, then the f-string, which evaluates
\* self.base_url first
url(b, filename) ==
    IF ~validate_file_name(filename, TRUE).ok
    THEN validate_file_name(filename, TRUE)
    ELSE IF ~BaseUrlOf(b).ok THEN BaseUrlOf(b)
    ELSE Ok(BaseUrlOf(b).val \o <<SEP>> \o LStrip(filename, SEP))

\* url(filename) is called
UrlCall(p) ==
    /\ pc[p] = "call"
    /\ call[p].op = "url"
    /\ Finish(p, url(base_url, call[p].filename))
    /\ UNCHANGED <<location, base_url, files, call, gaf, log>>

\* no base_url, an empty one, and some with and without trailing slashes
BaseUrls ==
    {NoBase, Base(<<>>), Base(<<"h">>), Base(<<"h", SEP>>),
     Base(<<"h", SEP, "s", SEP, SEP>>), Base(<<SEP>>)}

\* one call of url: any base_url, any short filename
InitUrl ==
    /\ location = PathOf(<<SEP, "r">>)
    /\ base_url \in BaseUrls
    /\ files = OneFile(location)
    /\ \E filename \in Strings({"a", DOT, SEP}, MaxNameLen) :
          OnlyCaller1([op |-> "url", filename |-> filename, max_len |-> 0])

NextUrl == \E p \in Procs : UrlCall(p)

SpecUrl == InitUrl /\ [][NextUrl]_vars

(***************************************************************************)
(* Properties of url, under SpecUrl.                                       *)
(***************************************************************************)
\* a base_url is set
HasBase == base_url.given /\ base_url.str # <<>>

\* u is the base_url without its trailing slashes, a slash and filename
IsUrlOf(u, filename) ==
    \E n \in 0..Len(base_url.str) :
        /\ n > 0 => base_url.str[n] # SEP
        /\ \A i \in (n + 1)..Len(base_url.str) : base_url.str[i] = SEP
        /\ u = SubSeq(base_url.str, 1, n) \o <<SEP>> \o filename

\* C15, as claimed: url fails with Misconfigured for every filename when no
\* base_url is set; when one is set it fails with PathTraversal for an
\* absolute name and a name with a ".." segment, and otherwise returns the
\* base_url without its trailing slashes, a slash and the filename.
C15_MisconfiguredBeforeValidation ==
    \A p \in Procs :
        Ended(p, "url")
            => IF ~HasBase THEN result[p] = Fail(Misconfigured)
               ELSE IF IsAbsolute(PathOf(call[p].filename)) \/ HasDotDot(call[p].filename)
               THEN result[p] = Fail(PathTraversal)
               ELSE result[p].ok /\ IsUrlOf(result[p].val, call[p].filename)

\* C15, amended: url validates the name first, base_url set or not: it
\* fails with InvalidName when the final component is empty, "." or "..",
\* and with PathTraversal for another absolute name or name with a ".."
\* segment; for a valid name it fails with Misconfigured when no base_url
\* is set and otherwise returns the base_url without its trailing slashes,
\* a slash and the filename.
C15_ValidationBeforeMisconfigured ==
    \A p \in Procs :
        Ended(p, "url")
            => IF NameOf(PathOf(call[p].filename)) \in {<<>>, <<DOT>>, <<DOT, DOT>>}
               THEN result[p] = Fail(InvalidName)
               ELSE IF IsAbsolute(PathOf(call[p].filename)) \/ HasDotDot(call[p].filename)
               THEN result[p] = Fail(PathTraversal)
               ELSE IF ~HasBase THEN result[p] = Fail(Misconfigured)
               ELSE result[p].ok /\ IsUrlOf(result[p].val, call[p].filename)

\* url failed with PathTraversal on a storage without base_url
C15_Witness ==
    \E p \in Procs :
        /\ Ended(p, "url") /\ ~base_url.given
        /\ call[p].filename = <<DOT, DOT, SEP, "a">>
        /\ result[p] = Fail(PathTraversal)

(***************************************************************************)
(* get_valid_filename.  The characters of a raw name are a sample of the   *)
(* classes the code tells apart; a character outside ASCII is written as   *)
(* its code point.                                                         *)
(***************************************************************************)
SPACE           == " "
E_ACUTE         == "U+00E9"   \* a letter that NFKD decomposes
COMBINING_ACUTE == "U+0301"   \* the mark the decomposition leaves
CYRILLIC_YA     == "U+044F"   \* a letter that NFKD leaves alone
ARABIC_THREE    == "U+0663"   \* a digit outside ASCII

\* the characters of the raw names
RawChars == {"a", "1", "_", DOT, "-", SPACE, SEP, E_ACUTE, CYRILLIC_YA, ARABIC_THREE}

\* str.strip(): without the whitespace at both ends
RECURSIVE Strip(_)
Strip(s) ==
    IF s = <<>> THEN s
    ELSE IF s[1] = SPACE THEN Strip(Tail(s))
    ELSE IF s[Len(s)] = SPACE THEN Strip(SubSeq(s, 1, Len(s) - 1))
    ELSE s

\* s.replace(" ", "_")
ReplaceSpace(s) == [i \in 1..Len(s) |-> IF s[i] = SPACE THEN "_" ELSE s[i]]

\* unicodedata.normalize("NFKD", s)
RECURSIVE NFKD(_)
NFKD(s) ==
    IF s = <<>> THEN s
    ELSE (IF s[1] = E_ACUTE THEN <<"e", COMBINING_ACUTE>> ELSE <<s[1]>>) \o NFKD(Tail(s))

\* \w of a str pattern: the letters and digits of Unicode and the underscore
IsWord(c) == c \in {"a", "e", "1", "_", E_ACUTE, CYRILLIC_YA, ARABIC_THREE}

\* re.sub(r"[^\w.-]", "", s)
RECURSIVE RemoveOthers(_)
RemoveOthers(s) ==
    IF s = <<>> THEN s
    ELSE (IF IsWord(s[1]) \/ s[1] \in {DOT, "-"} THEN <<s[1]>> ELSE <<>>)
         \o RemoveOthers(Tail(s))

get_valid_filename(name) ==
    LET s == RemoveOthers(NFKD(ReplaceSpace(Strip(name))))
    IN  IF s \in BadNames THEN Fail(InvalidName) ELSE Ok(s)

\* get_valid_filename(name) is called
ValidCall(p) ==
    /\ pc[p] = "call"
    /\ call[p].op = "get_valid_filename"
    /\ Finish(p, get_valid_filename(call[p].filename))
    /\ UNCHANGED <<location, base_url, files, call, gaf, log>>

\* one call of get_valid_filename: any short raw name
InitValid ==
    /\ location = PathOf(<<SEP, "r">>)
    /\ base_url = NoBase
    /\ files = RootOnly(location)
    /\ \E name \in Strings(RawChars, MaxRawLen) :
          OnlyCaller1([op |-> "get_valid_filename", filename |-> name, max_len |-> 0])

NextValid == \E p \in Procs : ValidCall(p)

SpecValid == InitValid /\ [][NextValid]_vars

\* the characters [A-Za-z0-9._-] among those of the model
AsciiNameChars == {"a", "e", "1", "_", DOT, "-"}

\* C16: for every raw name get_valid_filename fails with InvalidName or
\* returns a string of characters of [A-Za-z0-9._-] that is not empty, not
\* "." and not "..".
C16_ValidNameIsAscii ==
    \A p \in Procs :
        Ended(p, "get_valid_filename")
            => \/ result[p] = Fail(InvalidName)
               \/ /\ result[p].ok
                  /\ \A i \in 1..Len(result[p].val) : result[p].val[i] \in AsciiNameChars
                  /\ result[p].val \notin {<<>>, <<DOT>>, <<DOT, DOT>>}

(***************************************************************************)
(* Two runs of get_available_filename with the same arguments, under       *)
(* SpecPair: every caller makes the same call, exists is a mock that       *)
(* answers each of them as it likes.                                       *)
(***************************************************************************)
InitPair ==
    /\ location = PathOf(<<SEP, "r">>)
    /\ base_url = NoBase
    /\ files = RootOnly(location)
    /\ \E filename \in Strings({"a", DOT, SEP}, MaxNameLen), max_len \in 0..MaxMaxLen :
          call = [p \in Procs |-> [op |-> "get_available_filename",
                                   filename |-> filename, max_len |-> max_len]]
    /\ pc = [p \in Procs |-> "call"]
    /\ gaf = [p \in Procs |-> NoFrame]
    /\ result = [p \in Procs |-> NoResult]
    /\ log = [p \in Procs |-> NoLog]

NextPair ==
    \E p \in Procs :
        \/ ResolveCall(p)
        \/ MockResolve(p)

SpecPair == InitPair /\ [][NextPair]_vars

\* the number of answers of exists on which the runs of p and q agree, from
\* the first on
RECURSIVE Agree(_, _)
Agree(a, b) ==
    IF a = <<>> \/ b = <<>> \/ a[1] # b[1] THEN 0 ELSE 1 + Agree(Tail(a), Tail(b))

\* the names n and m are both the desired name of p, or both the desired
\* name with its stem replaced by the same prefix of it, the separator and
\* a random string: same length, same parent, same extension
SameButSuffix(p, n, m) ==
    /\ Len(n) = Len(m)
    /\ ParentOf(PathOf(n)) = ParentOf(PathOf(m))
    /\ \/ n = call[p].filename /\ m = call[p].filename
       \/ \E k \in 1..Len(StemOf(Desired(p))) :
             /\ Randomized(p, SubSeq(StemOf(Desired(p)), 1, k), n)
             /\ Randomized(p, SubSeq(StemOf(Desired(p)), 1, k), m)

\* C17: two runs of get_available_filename with the same desired name and
\* max_len ask exists for names that differ in the random string only as
\* long as exists gave them the same answers; when it gave them the same
\* answers throughout they make the same number of calls of exists and of
\* draws, cut the same number of characters, and both fail with the same
\* condition or both return names that differ in the random string only.
C17_RunsDifferInSuffixOnly ==
    \A p \in Procs, q \in Procs :
        (Resolving(p) /\ Resolving(q) /\ call[p] = call[q])
            => /\ \A i \in 1..(Agree(log[p].answers, log[q].answers) + 1) :
                     (i <= Len(log[p].asked) /\ i <= Len(log[q].asked))
                        => SameButSuffix(p, log[p].asked[i], log[q].asked[i])
               /\ (Finished(p) /\ Finished(q) /\ log[p].answers = log[q].answers)
                     => /\ Len(log[p].asked) = Len(log[q].asked)
                        /\ log[p].draws = log[q].draws
                        /\ Len(log[p].candidate) = Len(log[q].candidate)
                        /\ result[p].ok = result[q].ok
                        /\ ~result[p].ok => result[p] = result[q]
                        /\ result[p].ok => SameButSuffix(p, result[p].val, result[q].val)

\* two runs with the same answers returned different names, both with a
\* truncated stem
C17_Witness ==
    \E p \in Procs, q \in Procs :
        /\ Resolving(p) /\ Resolving(q) /\ call[p] = call[q]
        /\ pc[p] = "done" /\ pc[q] = "done"
        /\ log[p].answers = log[q].answers
        /\ result[p].val # result[q].val
        /\ Len(log[p].candidate) > call[p].max_len /\ call[p].max_len > 0

(***************************************************************************)
(* The iterations of the loop of get_available_filename, under             *)
(* SpecResolve.                                                            *)
(***************************************************************************)
\* C18: with max_len > 0 an iteration of the loop ends in
\* ExhaustedNameSpace or leaves a name of at most max_len characters, so
\* every name but the first that exists is asked for is within max_len,
\* and is asked for only after exists answered true or, the second, after
\* the desired name was too long; a call to which exists answered false
\* throughout made at most one iteration, whatever its max_len.
C18_LoopRepeatsOnlyOnExists ==
    \A p \in Procs :
        Resolving(p)
            => /\ (call[p].max_len > 0 /\ log[p].draws > 0)
                    => \/ result[p] = Fail(ExhaustedNameSpace)
                       \/ Len(gaf[p].filename) <= call[p].max_len
               /\ \A i \in 2..Len(log[p].asked) :
                     /\ call[p].max_len > 0 => Len(log[p].asked[i]) <= call[p].max_len
                     /\ \/ log[p].answers[i - 1] = Ok(TRUE)
                        \/ /\ i = 2 /\ call[p].max_len > 0
                           /\ Len(call[p].filename) > call[p].max_len
               /\ (\A i \in 1..Len(log[p].answers) : log[p].answers[i] = Ok(FALSE))
                     => /\ Len(log[p].asked) <= 2
                        /\ log[p].draws <= 2
                        /\ Len(log[p].asked) = 2 => Finished(p)

\* a desired name longer than max_len, exists answering false: the call
\* returned after one iteration
C18_Witness ==
    \E p \in Procs :
        /\ Resolving(p) /\ pc[p] = "done"
        /\ call[p].max_len > 0 /\ Len(call[p].filename) > call[p].max_len
        /\ log[p].answers = <<Ok(FALSE), Ok(FALSE)>>
        /\ Len(result[p].val) = call[p].max_len

(***************************************************************************)
(* exists, url and get_available_filename of a FileSystemStorage that      *)
(* holds the file a, alone or beside a call of save, under SpecRead.       *)
(***************************************************************************)
ReadOps == {"exists", "url", "get_available_filename"}

\* caller 1 makes one call of exists, url or get_available_filename with
\* any short name; the last caller makes none, or saves a or b
InitRead ==
    /\ location = PathOf(<<SEP, "r">>)
    /\ base_url \in {NoBase, Base(<<"h", SEP>>)}
    /\ files = OneFile(location)
    /\ \E op \in ReadOps, filename \in Strings({"a", DOT, SEP}, MaxNameLen),
          i \in 1..Len(SaveMaxLens),
          other \in {Idle, [op |-> "save", filename |-> <<"a">>, max_len |-> 0],
                           [op |-> "save", filename |-> <<"b">>, max_len |-> 0]} :
          /\ op # "get_available_filename" => i = 1
          /\ call = [p \in Procs |->
                        IF p = 1 THEN [op |-> op, filename |-> filename,
                                       max_len |-> SaveMaxLens[i]]
                        ELSE IF p = NumProcs THEN other ELSE Idle]
    /\ pc = [p \in Procs |-> IF call[p].op = None THEN "done" ELSE "call"]
    /\ gaf = [p \in Procs |-> NoFrame]
    /\ result = [p \in Procs |-> NoResult]
    /\ log = [p \in Procs |-> NoLog]

NextRead ==
    \E p \in Procs :
        \/ ExistsCall(p)
        \/ UrlCall(p)
        \/ ResolveCall(p)
        \/ FsResolve(p)
        \/ SaveCall(p)
        \/ SaveMakedirs(p)
        \/ SaveOpen(p)
        \/ SaveWrite(p)

SpecRead == InitRead /\ [][NextRead]_vars

\* the caller p takes a step
Steps(p) == pc'[p] # pc[p] \/ log'[p] # log[p] \/ gaf'[p] # gaf[p]

\* C19: no step of a call of exists, url or get_available_filename changes
\* the store, whatever the argument and the outcome; when no call of save
\* runs beside it, the store is the initial one throughout and the name
\* get_available_filename returned is not in it; and
\* get_available_filename fails without a call of exists for a desired name
\* with a ".." segment or with a final component that is empty, "." or
\* "..".
C19_ReadOnly ==
    /\ [][\A p \in Procs : (call[p].op \in ReadOps /\ Steps(p)) => files' = files]_vars
    /\ [](\A p \in Procs :
            call[p].op = "get_available_filename"
                => /\ (\A q \in Procs : call[q].op # "save")
                         => /\ files = OneFile(location)
                            /\ pc[p] = "done" => ~lexists(files, PathFor(result[p].val))
                   /\ (HasDotDot(call[p].filename)
                          \/ NameOf(PathOf(call[p].filename)) \in {<<>>, <<DOT>>, <<DOT, DOT>>})
                         => /\ log[p].asked = <<>>
                            /\ pc[p] # "resolve"
                            /\ Finished(p) => ~result[p].ok)

\* get_available_filename returned a randomized name for the name that is
\* there, while a save had made another file
C19_Witness ==
    \E p \in Procs :
        /\ Ended(p, "get_available_filename") /\ pc[p] = "done"
        /\ call[p].filename = <<"a">>
        /\ result[p].val # <<"a">>
        /\ ~lexists(files, PathFor(result[p].val))
        /\ \E path \in DOMAIN files : files[path].owner \in Procs \ {p}

====
